---- MODULE Spec2Model ----
(***************************************************************************)
(* State-machine model of src/app.py: the KiteManager streaming session,   *)
(* the price cache, the single open position, the monitor thread and the   *)
(* webhook signal handler.                                                 *)
(*                                                                         *)
(* Prices are whole numbers; the stop and the target of a position are     *)
(* kept in hundredths of a price unit (Scale), so that                     *)
(* entry_price * (1 - SL_PCT) and ltp * (1 - TRAIL_SL_PCT) are exact.      *)
(***************************************************************************)
EXTENDS Integers, Sequences, FiniteSets, TLC

\* ---------------------------------------------------------------- bounds
MaxPrice == 4
MaxSignals == 2
MaxRotations == 1
MaxNow == 15
ClockStep == 15
PollAttempts == 2
SubCap == 2

\* ------------------------------------------------------- program constants
Scale == 100
SL_PCT == 30
TARGET_PCT == 90
TRAIL_SL_PCT == 30
MAX_TRADE_DURATION_MIN == 15
NIFTY_TOKEN == 256265
CE_TOKEN == 101
PE_TOKEN == 102

Tokens == {NIFTY_TOKEN, CE_TOKEN, PE_TOKEN}
\* last_price values the feed delivers: the index is quoted at one level, an
\* option at any price from 0 (never traded) to MaxPrice
IndexPrices == {22010}
OptionPrices == 0..MaxPrice
TickPrices(tok) == IF tok = NIFTY_TOKEN THEN IndexPrices ELSE OptionPrices
\* the narrower feed of the token-rotation specification
RotationPrices(tok) == IF tok = NIFTY_TOKEN THEN IndexPrices ELSE {1, 2}
\* the NFO instruments table: one NIFTY call and one put at the 22000 strike
Instruments ==
  {[instrument_token |-> CE_TOKEN, strike |-> 22000, instrument_type |-> "CE"],
   [instrument_token |-> PE_TOKEN, strike |-> 22000, instrument_type |-> "PE"]}
Signals == {"BUY_CALL", "BUY_PUT"}
Handlers == {"h1", "h2"}
\* two requests that call update_access_token at the same time, and the
\* new_token each of them brings
Callers == {"c1", "c2"}
CallerToken(c) == IF c = "c1" THEN "t1" ELSE "t2"
None == "None"

VARIABLES
  ltp_cache,       \* dict instrument_token -> last_price (a function on the keys present)
  open_position,   \* <<>> for None, <<record>> for the open position
  last_signal,     \* None or the signal of the last admitted entry
  lock,            \* "free" or the handler holding the module-level lock
  sheet,           \* the "Trades" worksheet: one record per appended row
  last_exit,       \* row_idx, exit_price and reason of the most recent log_exit call
  monitor_alive,   \* the monitor thread is still inside its while-True loop
  now,             \* wall clock, in minutes
  access_token,    \* KiteManager.access_token
  kite,            \* KiteManager.kite: None or the token the client was built with
  kws,             \* KiteManager.kws: 0 for None, else the id of the KiteTicker object
  kws_ws,          \* KiteManager.kws.ws is set (the ticker object has connected once)
  tconn,           \* state of the transport of kws: "none", "connecting", "open", "closed"
  ws_connected,    \* KiteManager.ws_connected
  pending_subscriptions,
  sub_calls,       \* per token: subscribe requests sent on the present connection of kws
  cb_pc,           \* streaming thread: "idle", or "clear" inside on_connect before pending.clear()
  old_closing,     \* a retired ticker whose on_close callback is still to be delivered
  mgr_lock,        \* KiteManager.lock is held (by initialize)
  pc,              \* per handler: "idle", "wait", "sub", "poll"
  sig,             \* per handler: the signal of the request being served
  opt,             \* per handler: the token of the contract chosen by get_nearest_option
  attempts,        \* per handler: iterations of the entry-price poll done so far
  response,        \* the last response of webhook(), with the signal it answers
  nsignals,        \* webhook requests received so far
  upd_pc,          \* the thread running update_access_token
  upd_tok,         \* the token read from open_position by update_access_token
  rot_row,         \* sheet_row of the position open when update_access_token began (0: none)
  nrot,            \* update_access_token calls made so far
  token_file,      \* content of config/access_token.txt
  kws_token,       \* the access token the KiteTicker object kws was built with
  rc_pc,           \* per concurrent caller of update_access_token: its position
  rc_tok           \* per concurrent caller: its new_token argument

vars == <<ltp_cache, open_position, last_signal, lock, sheet, last_exit, monitor_alive, now,
          access_token, kite, kws, kws_ws, tconn, ws_connected, pending_subscriptions,
          sub_calls, cb_pc, old_closing, mgr_lock, pc, sig, opt, attempts, response,
          nsignals, upd_pc, upd_tok, rot_row, nrot, token_file, kws_token, rc_pc, rc_tok>>

engine_vars == <<open_position, last_signal, sheet, last_exit>>
session_vars == <<access_token, kite, kws, kws_ws, tconn, ws_connected,
                  pending_subscriptions, sub_calls, cb_pc, old_closing, mgr_lock>>
handler_vars == <<pc, sig, opt, attempts, response, nsignals>>
update_vars == <<upd_pc, upd_tok, rot_row, nrot>>
race_vars == <<token_file, kws_token, rc_pc, rc_tok>>

\* ------------------------------------------------------------ price cache
\* a price test that takes a cached 0 for a price
TruthyKeyPresent(tok) == tok \in DOMAIN ltp_cache

\* ltp_cache.get(tok) followed by "if not ltp": a missing key and a price of 0
\* are both "no price"
Truthy(tok) == tok \in DOMAIN ltp_cache /\ ltp_cache[tok] # 0

\* ltp_cache[tok] = p
CachePut(tok, p) ==
  [t \in (DOMAIN ltp_cache) \cup {tok} |-> IF t = tok THEN p ELSE ltp_cache[t]]

Min(a, b) == IF a < b THEN a ELSE b

\* ------------------------------------------------------------- the ledger
\* the row sheet.append_row adds in log_entry: of its cells the model follows
\* the exit reason (M, empty at entry); calls counts the log_exit invocations
\* made with the row's index
LedgerRow == [reason |-> "", calls |-> 0]

\* log_exit(row_idx, ...) on the row: six update_cell calls; when one of them
\* raises (ok = FALSE) the call is abandoned before the reason cell, the last
\* one, is written
log_exit(row, reason, ok) ==
  IF ok
  THEN [row EXCEPT !.reason = reason, !.calls = @ + 1]
  ELSE [row EXCEPT !.calls = @ + 1]

\* ----------------------------------------------------------- the position
\* the dict built by webhook() on an admitted entry
NewPosition(signal, token, entry_price, sheet_row) ==
  [signal |-> signal, token |-> token, entry_price |-> entry_price,
   sl |-> entry_price * (Scale - SL_PCT),
   target |-> entry_price * (Scale + TARGET_PCT),
   exit_time |-> now + MAX_TRADE_DURATION_MIN,
   sheet_row |-> sheet_row]

\* a trailing stop that follows the price down as well
TrailSlNoMax(sl, ltp) == ltp * (Scale - TRAIL_SL_PCT)

\* trailing stop: new_sl = ltp * (1 - TRAIL_SL_PCT); kept only when higher
TrailSl(sl, ltp) ==
  LET new_sl == ltp * (Scale - TRAIL_SL_PCT)
  IN  IF new_sl > sl THEN new_sl ELSE sl

\* an exit rule that tests the stop and the target before the deadline
ExitReasonPriceFirst(pos, ltp) ==
  IF ltp * Scale <= pos.sl THEN "SL_HIT"
  ELSE IF ltp * Scale >= pos.target THEN "TARGET_HIT"
  ELSE IF now >= pos.exit_time THEN "TIME_EXIT"
  ELSE "NONE"

\* the exit rule of one monitor iteration, on the position after the ratchet
ExitReason(pos, ltp) ==
  IF now >= pos.exit_time THEN "TIME_EXIT"
  ELSE IF ltp * Scale <= pos.sl THEN "SL_HIT"
  ELSE IF ltp * Scale >= pos.target THEN "TARGET_HIT"
  ELSE "NONE"

\* last_exit before any log_exit call
NoExit == [row_idx |-> 0, exit_price |-> 0, reason |-> ""]

\* exit_trade(reason, exit_price) on the open position pos: log_exit, then
\* open_position = None; when log_exit raises the assignment is never reached
exit_trade(pos, reason, exit_price, ok) ==
  /\ sheet' = [sheet EXCEPT ![pos.sheet_row] = log_exit(@, reason, ok)]
  /\ last_exit' = [row_idx |-> pos.sheet_row, exit_price |-> exit_price,
                   reason |-> reason]
  /\ open_position' = IF ok THEN <<>> ELSE <<pos>>

\* ------------------------------------------------------------- the lock
\* a lock that is granted whoever holds it
LockIgnored == TRUE

\* "with lock:" can be entered: no thread is inside a "with lock:" block
LockFree == lock = "free"

\* ------------------------------------------------------ the monitor thread
\* one iteration of the while-True loop of monitor_position, under the lock;
\* an exception of log_exit leaves the loop and ends the thread
monitor_position ==
  /\ monitor_alive
  /\ LockFree
  /\ IF open_position = <<>> \/ ~Truthy(open_position[1].token)
     THEN UNCHANGED <<open_position, sheet, last_exit, monitor_alive>>
     ELSE LET pos0 == open_position[1]
              ltp == ltp_cache[pos0.token]
              pos == [pos0 EXCEPT !.sl = TrailSl(pos0.sl, ltp)]
              reason == ExitReason(pos, ltp)
          IN  IF reason = "NONE"
              THEN /\ open_position' = <<pos>>
                   /\ UNCHANGED <<sheet, last_exit, monitor_alive>>
              ELSE \E ok \in BOOLEAN :
                     /\ exit_trade(pos, reason, ltp, ok)
                     /\ monitor_alive' = ok
  /\ UNCHANGED <<ltp_cache, last_signal, lock, now>>
  /\ UNCHANGED <<session_vars, handler_vars, update_vars>>
  /\ UNCHANGED race_vars

\* the wall clock advances
Advance ==
  /\ now + ClockStep <= MaxNow
  /\ now' = now + ClockStep
  /\ UNCHANGED <<ltp_cache, engine_vars, lock, monitor_alive>>
  /\ UNCHANGED <<session_vars, handler_vars, update_vars>>
  /\ UNCHANGED race_vars

\* ------------------------------------------------------- option selection
\* round(nifty_ltp / 50) * 50, Python's round: to the nearest, ties to even
Atm(nifty_ltp) ==
  LET q == nifty_ltp \div 50
      r == nifty_ltp % 50
  IN  IF r < 25 THEN q * 50
      ELSE IF r > 25 THEN (q + 1) * 50
      ELSE IF q % 2 = 0 THEN q * 50 ELSE (q + 1) * 50

\* the rows get_nearest_option chooses among (df); df.iloc[0] raises when empty
get_nearest_option(nifty_ltp, option_type) ==
  {i \in Instruments : i.strike = Atm(nifty_ltp) /\ i.instrument_type = option_type}

OptionType(signal) == IF signal = "BUY_CALL" THEN "CE" ELSE "PE"

\* ------------------------------------------------------------- subscribe
\* KiteManager.subscribe: "if self.ws_connected and self.kws and self.kws.ws"
SubDirect == ws_connected /\ kws # 0 /\ kws_ws

\* kws.subscribe([tok]) / ws.subscribe(toks): the request reaches the feed when
\* the transport is open; on a closed one it raises (caught by subscribe)
SendSubscribe(toks) ==
  sub_calls' = IF tconn = "open"
               THEN [t \in Tokens |-> IF t \in toks THEN Min(sub_calls[t] + 1, SubCap)
                                      ELSE sub_calls[t]]
               ELSE sub_calls

\* -------------------------------------------------------------- webhook
\* a flip test that forgets last_signal
IsFlipAlways(signal) == open_position # <<>>

\* the signal flip test of webhook()
IsFlip(signal) == open_position # <<>> /\ signal # last_signal

\* a return (or an escaping exception) of webhook(): leaves "with lock"
Return(h, r) ==
  /\ pc' = [pc EXCEPT ![h] = "idle"]
  /\ sig' = [sig EXCEPT ![h] = None]
  /\ opt' = [opt EXCEPT ![h] = 0]
  /\ attempts' = [attempts EXCEPT ![h] = 0]
  /\ response' = [signal |-> sig[h], status |-> r]
  /\ lock' = "free"

\* webhook(), before the lock: is_ready() and the validation of the signal
webhook_request(h, s) ==
  /\ pc[h] = "idle"
  /\ nsignals < MaxSignals
  /\ nsignals' = nsignals + 1
  /\ IF kite = None
     THEN /\ response' = [signal |-> s, status |-> "Kite not connected"]
          /\ UNCHANGED <<pc, sig>>
     ELSE IF s \notin Signals
     THEN /\ response' = [signal |-> s, status |-> "Invalid signal"]
          /\ UNCHANGED <<pc, sig>>
     ELSE /\ pc' = [pc EXCEPT ![h] = "wait"]
          /\ sig' = [sig EXCEPT ![h] = s]
          /\ UNCHANGED response
  /\ UNCHANGED <<opt, attempts, ltp_cache, engine_vars, lock, monitor_alive, now>>
  /\ UNCHANGED <<session_vars, update_vars>>
  /\ UNCHANGED race_vars

\* a selection that gives the lock up for the entry-price poll
SelectUnlocked(h) ==
  LET df == get_nearest_option(ltp_cache[NIFTY_TOKEN], OptionType(sig[h]))
  IN  \E loaded \in BOOLEAN :
        IF ~loaded \/ df = {}
        THEN Return(h, "Internal error") /\ UNCHANGED sub_calls
        ELSE LET tok == (CHOOSE i \in df : TRUE).instrument_token
             IN  /\ opt' = [opt EXCEPT ![h] = tok]
                 /\ lock' = "free"
                 /\ UNCHANGED <<sig, attempts, response>>
                 /\ IF SubDirect
                    THEN SendSubscribe({tok}) /\ pc' = [pc EXCEPT ![h] = "poll"]
                    ELSE UNCHANGED sub_calls /\ pc' = [pc EXCEPT ![h] = "sub"]

\* get_nearest_option and safe_subscribe up to the test of subscribe(); the
\* lookup raises when the instruments are not loaded or no contract matches
Select(h) ==
  LET df == get_nearest_option(ltp_cache[NIFTY_TOKEN], OptionType(sig[h]))
  IN  \E loaded \in BOOLEAN :
        IF ~loaded \/ df = {}
        THEN Return(h, "Internal error") /\ UNCHANGED sub_calls
        ELSE LET tok == (CHOOSE i \in df : TRUE).instrument_token
             IN  /\ opt' = [opt EXCEPT ![h] = tok]
                 /\ lock' = h
                 /\ UNCHANGED <<sig, attempts, response>>
                 /\ IF SubDirect
                    THEN SendSubscribe({tok}) /\ pc' = [pc EXCEPT ![h] = "poll"]
                    ELSE UNCHANGED sub_calls /\ pc' = [pc EXCEPT ![h] = "sub"]

\* webhook(), from "with lock" to the test of subscribe()
webhook_enter(h) ==
  /\ pc[h] = "wait"
  /\ LockFree
  /\ IF ~Truthy(NIFTY_TOKEN)
     THEN Return(h, "NIFTY LTP not ready")
          /\ UNCHANGED <<open_position, sheet, last_exit, sub_calls>>
     ELSE IF IsFlip(sig[h]) /\ Truthy(open_position[1].token)
     THEN \E ok \in BOOLEAN :
            /\ exit_trade(open_position[1], "SIGNAL_FLIP",
                          ltp_cache[open_position[1].token], ok)
            /\ IF ok THEN Select(h)
               ELSE Return(h, "Internal error") /\ UNCHANGED sub_calls
     ELSE IF open_position # <<>>
     THEN Return(h, "Trade running")
          /\ UNCHANGED <<open_position, sheet, last_exit, sub_calls>>
     ELSE Select(h) /\ UNCHANGED <<open_position, sheet, last_exit>>
  /\ UNCHANGED <<ltp_cache, last_signal, monitor_alive, now, nsignals>>
  /\ UNCHANGED <<access_token, kite, kws, kws_ws, tconn, ws_connected,
                 pending_subscriptions, cb_pc, old_closing, mgr_lock>>
  /\ UNCHANGED update_vars
  /\ UNCHANGED race_vars

\* subscribe(), the else branch: self.pending_subscriptions.add(token)
webhook_sub(h) ==
  /\ pc[h] = "sub"
  /\ pending_subscriptions' = pending_subscriptions \cup {opt[h]}
  /\ pc' = [pc EXCEPT ![h] = "poll"]
  /\ UNCHANGED <<sig, opt, attempts, response, nsignals>>
  /\ UNCHANGED <<ltp_cache, engine_vars, lock, monitor_alive, now>>
  /\ UNCHANGED <<access_token, kite, kws, kws_ws, tconn, ws_connected,
                 sub_calls, cb_pc, old_closing, mgr_lock>>
  /\ UNCHANGED update_vars
  /\ UNCHANGED race_vars

\* get_option_margin: None when there is no client or the quote fails
MarginOutcomes == IF kite = None THEN {FALSE} ELSE BOOLEAN

\* an entry that leaves last_signal as it was
LastSignalKept(signal) == last_signal

\* webhook(), after the position is built: last_signal = signal
LastSignalOfEntry(signal) == signal

\* an aborted entry that has already appended its ledger row
AbortEntryPartial(h, r) ==
  /\ Return(h, r)
  /\ sheet' = Append(sheet, LedgerRow)
  /\ UNCHANGED <<open_position, last_signal, last_exit>>

\* webhook(), the error returns of the entry: "Option LTP not ready" after the
\* poll, "Margin not available" after get_option_margin; both come before
\* log_entry and before the position is built
AbortEntry(h, r) == Return(h, r) /\ UNCHANGED engine_vars

\* webhook(), one iteration of the entry-price poll and, once a price is
\* there, the rest of the entry: margin, log_entry, the position
webhook_poll(h) ==
  /\ pc[h] = "poll"
  /\ IF ~Truthy(opt[h])
     THEN /\ IF attempts[h] + 1 >= PollAttempts
             THEN AbortEntry(h, "Option LTP not ready")
             ELSE /\ attempts' = [attempts EXCEPT ![h] = @ + 1]
                  /\ UNCHANGED <<pc, sig, opt, response, lock>>
                  /\ UNCHANGED engine_vars
     ELSE \E margin \in MarginOutcomes, appended \in BOOLEAN :
            IF ~margin
            THEN AbortEntry(h, "Margin not available")
            ELSE IF ~appended
            THEN Return(h, "Internal error") /\ UNCHANGED engine_vars
            ELSE LET entry_price == ltp_cache[opt[h]]
                     sheet_row == Len(sheet) + 1
                 IN  /\ sheet' = Append(sheet, LedgerRow)
                     /\ UNCHANGED last_exit
                     /\ open_position' =
                          <<NewPosition(sig[h], opt[h], entry_price, sheet_row)>>
                     /\ last_signal' = LastSignalOfEntry(sig[h])
                     /\ Return(h, "ENTRY OK")
  /\ UNCHANGED <<ltp_cache, monitor_alive, now, nsignals>>
  /\ UNCHANGED <<session_vars, update_vars>>
  /\ UNCHANGED race_vars

\* ------------------------------------------------- the streaming callbacks
\* KiteManager.on_ticks, one tick: the feed sends ticks for the tokens
\* subscribed on the open connection of the ticker
on_ticks(tok, price) ==
  /\ kws # 0
  /\ tconn = "open"
  /\ cb_pc = "idle"
  /\ sub_calls[tok] > 0
  /\ ltp_cache' = CachePut(tok, price)
  /\ UNCHANGED <<engine_vars, lock, monitor_alive, now>>
  /\ UNCHANGED <<session_vars, handler_vars, update_vars>>
  /\ UNCHANGED race_vars

\* KiteManager.on_connect up to pending_subscriptions.clear(): the ticker has
\* (re)connected; NIFTY and then the pending tokens are subscribed
on_connect ==
  /\ kws # 0
  /\ tconn \in {"connecting", "closed"}
  /\ cb_pc = "idle"
  /\ tconn' = "open"
  /\ kws_ws' = TRUE
  /\ ws_connected' = TRUE
  /\ sub_calls' = [t \in Tokens |->
                     (IF t = NIFTY_TOKEN THEN 1 ELSE 0)
                     + (IF t \in pending_subscriptions THEN 1 ELSE 0)]
  /\ cb_pc' = IF pending_subscriptions # {} THEN "clear" ELSE "idle"
  /\ UNCHANGED <<access_token, kite, kws, pending_subscriptions, old_closing, mgr_lock>>
  /\ UNCHANGED <<ltp_cache, engine_vars, lock, monitor_alive, now>>
  /\ UNCHANGED <<handler_vars, update_vars>>
  /\ UNCHANGED race_vars

\* KiteManager.on_connect, its last statement: self.pending_subscriptions.clear()
on_connect_clear ==
  /\ cb_pc = "clear"
  /\ pending_subscriptions' = {}
  /\ cb_pc' = "idle"
  /\ UNCHANGED <<access_token, kite, kws, kws_ws, tconn, ws_connected, sub_calls,
                 old_closing, mgr_lock>>
  /\ UNCHANGED <<ltp_cache, engine_vars, lock, monitor_alive, now>>
  /\ UNCHANGED <<handler_vars, update_vars>>
  /\ UNCHANGED race_vars

\* KiteManager.on_close for the current ticker: the connection dropped
on_close ==
  /\ kws # 0
  /\ tconn = "open"
  /\ cb_pc = "idle"
  /\ tconn' = "closed"
  /\ ws_connected' = FALSE
  /\ UNCHANGED <<access_token, kite, kws, kws_ws, pending_subscriptions, sub_calls,
                 cb_pc, old_closing, mgr_lock>>
  /\ UNCHANGED <<ltp_cache, engine_vars, lock, monitor_alive, now>>
  /\ UNCHANGED <<handler_vars, update_vars>>
  /\ UNCHANGED race_vars

\* KiteManager.on_close delivered for a ticker that initialize() has closed
old_on_close ==
  /\ old_closing
  /\ cb_pc = "idle"
  /\ old_closing' = FALSE
  /\ ws_connected' = FALSE
  /\ UNCHANGED <<access_token, kite, kws, kws_ws, tconn, pending_subscriptions,
                 sub_calls, cb_pc, mgr_lock>>
  /\ UNCHANGED <<ltp_cache, engine_vars, lock, monitor_alive, now>>
  /\ UNCHANGED <<handler_vars, update_vars>>
  /\ UNCHANGED race_vars

\* KiteManager.on_noreconnect: the ticker gave up reconnecting
on_noreconnect ==
  /\ kws # 0
  /\ tconn = "closed"
  /\ cb_pc = "idle"
  /\ tconn' = "stopped"
  /\ ws_connected' = FALSE
  /\ UNCHANGED <<access_token, kite, kws, kws_ws, pending_subscriptions, sub_calls,
                 cb_pc, old_closing, mgr_lock>>
  /\ UNCHANGED <<ltp_cache, engine_vars, lock, monitor_alive, now>>
  /\ UNCHANGED <<handler_vars, update_vars>>
  /\ UNCHANGED race_vars

\* ----------------------------------------------------- update_access_token
\* the tokens update_access_token is called with: a fresh token, or none ("")
NewTokens == {"t1", ""}
NoSubCalls == [t \in Tokens |-> 0]

\* update_access_token: self.access_token = new_token; write_file(...)
update_access_token(new_token) ==
  /\ upd_pc \in {"idle", "done", "failed"}
  /\ nrot < MaxRotations
  /\ nrot' = nrot + 1
  /\ access_token' = new_token
  /\ upd_pc' = "init"
  /\ upd_tok' = 0
  /\ rot_row' = IF open_position = <<>> THEN 0 ELSE open_position[1].sheet_row
  /\ UNCHANGED <<kite, kws, kws_ws, tconn, ws_connected, pending_subscriptions,
                 sub_calls, cb_pc, old_closing, mgr_lock>>
  /\ UNCHANGED <<ltp_cache, engine_vars, lock, monitor_alive, now, handler_vars>>
  /\ token_file' = new_token
  /\ UNCHANGED <<kws_token, rc_pc, rc_tok>>

\* initialize(): "with self.lock", then the existing ticker is closed
\* (kws.close(); time.sleep(1)); its on_close callback is delivered later
initialize_close ==
  /\ upd_pc = "init"
  /\ ~mgr_lock
  /\ mgr_lock' = TRUE
  /\ upd_pc' = "start"
  /\ IF kws # 0
     THEN /\ tconn' = "stopped"
          /\ old_closing' = (old_closing \/ tconn = "open")
     ELSE UNCHANGED <<tconn, old_closing>>
  /\ UNCHANGED <<access_token, kite, kws, kws_ws, ws_connected, pending_subscriptions,
                 sub_calls, cb_pc>>
  /\ UNCHANGED <<upd_tok, rot_row, nrot>>
  /\ UNCHANGED <<ltp_cache, engine_vars, lock, monitor_alive, now, handler_vars>>
  /\ UNCHANGED race_vars

\* initialize(), after the close: the token test, KiteConnect + profile(),
\* KiteTicker + connect(threaded=True); an exception clears kite and kws
initialize_start ==
  /\ upd_pc = "start"
  /\ mgr_lock' = FALSE
  /\ IF access_token = ""
     THEN /\ upd_pc' = "failed"
          /\ UNCHANGED <<kite, kws, kws_ws, tconn, sub_calls, kws_token>>
     ELSE \E valid \in BOOLEAN :
            IF valid
            THEN /\ kite' = access_token
                 /\ kws' = nrot + 1
                 /\ kws_token' = access_token
                 /\ kws_ws' = FALSE
                 /\ tconn' = "connecting"
                 /\ sub_calls' = NoSubCalls
                 /\ upd_pc' = "resub"
            ELSE /\ kite' = None
                 /\ kws' = 0
                 /\ kws_token' = ""
                 /\ kws_ws' = FALSE
                 /\ tconn' = "none"
                 /\ sub_calls' = NoSubCalls
                 /\ upd_pc' = "failed"
  /\ UNCHANGED <<access_token, ws_connected, pending_subscriptions, cb_pc, old_closing>>
  /\ UNCHANGED <<upd_tok, rot_row, nrot>>
  /\ UNCHANGED <<ltp_cache, engine_vars, lock, monitor_alive, now, handler_vars>>
  /\ UNCHANGED <<token_file, rc_pc, rc_tok>>

\* update_access_token: "if open_position:"
upd_resub_check ==
  /\ upd_pc = "resub"
  /\ upd_pc' = IF open_position # <<>> THEN "read" ELSE "nifty"
  /\ UNCHANGED <<upd_tok, rot_row, nrot>>
  /\ UNCHANGED <<ltp_cache, engine_vars, lock, monitor_alive, now>>
  /\ UNCHANGED <<session_vars, handler_vars>>
  /\ UNCHANGED race_vars

\* update_access_token: self.subscribe(open_position["token"]) up to the test of
\* subscribe(); open_position["token"] raises when the position is gone
upd_resub_read ==
  /\ upd_pc = "read"
  /\ IF open_position = <<>>
     THEN upd_pc' = "failed" /\ UNCHANGED <<upd_tok, sub_calls>>
     ELSE IF SubDirect
     THEN /\ SendSubscribe({open_position[1].token})
          /\ upd_pc' = "nifty"
          /\ UNCHANGED upd_tok
     ELSE /\ upd_tok' = open_position[1].token
          /\ upd_pc' = "pend_pos"
          /\ UNCHANGED sub_calls
  /\ UNCHANGED <<rot_row, nrot>>
  /\ UNCHANGED <<access_token, kite, kws, kws_ws, tconn, ws_connected,
                 pending_subscriptions, cb_pc, old_closing, mgr_lock>>
  /\ UNCHANGED <<ltp_cache, engine_vars, lock, monitor_alive, now, handler_vars>>
  /\ UNCHANGED race_vars

\* subscribe(), the else branch, for the position's token
upd_pend_pos ==
  /\ upd_pc = "pend_pos"
  /\ pending_subscriptions' = pending_subscriptions \cup {upd_tok}
  /\ upd_pc' = "nifty"
  /\ upd_tok' = 0
  /\ UNCHANGED <<rot_row, nrot>>
  /\ UNCHANGED <<access_token, kite, kws, kws_ws, tconn, ws_connected,
                 sub_calls, cb_pc, old_closing, mgr_lock>>
  /\ UNCHANGED <<ltp_cache, engine_vars, lock, monitor_alive, now, handler_vars>>
  /\ UNCHANGED race_vars

\* update_access_token: self.subscribe(NIFTY_TOKEN) up to the test of subscribe()
upd_resub_nifty ==
  /\ upd_pc = "nifty"
  /\ IF SubDirect
     THEN SendSubscribe({NIFTY_TOKEN}) /\ upd_pc' = "done"
     ELSE UNCHANGED sub_calls /\ upd_pc' = "pend_nifty"
  /\ UNCHANGED <<upd_tok, rot_row, nrot>>
  /\ UNCHANGED <<access_token, kite, kws, kws_ws, tconn, ws_connected,
                 pending_subscriptions, cb_pc, old_closing, mgr_lock>>
  /\ UNCHANGED <<ltp_cache, engine_vars, lock, monitor_alive, now, handler_vars>>
  /\ UNCHANGED race_vars

\* subscribe(), the else branch, for NIFTY_TOKEN
upd_pend_nifty ==
  /\ upd_pc = "pend_nifty"
  /\ pending_subscriptions' = pending_subscriptions \cup {NIFTY_TOKEN}
  /\ upd_pc' = "done"
  /\ UNCHANGED <<upd_tok, rot_row, nrot>>
  /\ UNCHANGED <<access_token, kite, kws, kws_ws, tconn, ws_connected,
                 sub_calls, cb_pc, old_closing, mgr_lock>>
  /\ UNCHANGED <<ltp_cache, engine_vars, lock, monitor_alive, now, handler_vars>>
  /\ UNCHANGED race_vars

\* ------------------------------- update_access_token, statement by statement
\* two calls of update_access_token running at the same time, each statement
\* a step of its own; KiteManager.lock is held from the start of initialize()
\* to its return

\* update_access_token: self.access_token = new_token
rc_set(c) ==
  /\ rc_pc[c] = "idle"
  /\ access_token' = CallerToken(c)
  /\ rc_tok' = [rc_tok EXCEPT ![c] = CallerToken(c)]
  /\ rc_pc' = [rc_pc EXCEPT ![c] = "write"]
  /\ UNCHANGED <<kite, kws, kws_ws, tconn, ws_connected, pending_subscriptions,
                 sub_calls, cb_pc, old_closing, mgr_lock, token_file, kws_token>>
  /\ UNCHANGED <<ltp_cache, engine_vars, lock, monitor_alive, now>>
  /\ UNCHANGED <<handler_vars, update_vars>>

\* update_access_token: write_file(ACCESS_TOKEN_FILE, new_token)
rc_write(c) ==
  /\ rc_pc[c] = "write"
  /\ token_file' = rc_tok[c]
  /\ rc_pc' = [rc_pc EXCEPT ![c] = "init"]
  /\ UNCHANGED <<kws_token, rc_tok>>
  /\ UNCHANGED <<ltp_cache, engine_vars, lock, monitor_alive, now>>
  /\ UNCHANGED <<session_vars, handler_vars, update_vars>>

\* initialize(): "with self.lock", the existing ticker is closed
rc_close(c) ==
  /\ rc_pc[c] = "init"
  /\ ~mgr_lock
  /\ mgr_lock' = TRUE
  /\ rc_pc' = [rc_pc EXCEPT ![c] = "client"]
  /\ IF kws # 0
     THEN /\ tconn' = "stopped"
          /\ old_closing' = (old_closing \/ tconn = "open")
     ELSE UNCHANGED <<tconn, old_closing>>
  /\ UNCHANGED <<access_token, kite, kws, kws_ws, ws_connected, pending_subscriptions,
                 sub_calls, cb_pc, token_file, kws_token, rc_tok>>
  /\ UNCHANGED <<ltp_cache, engine_vars, lock, monitor_alive, now>>
  /\ UNCHANGED <<handler_vars, update_vars>>

\* initialize(): the token test, KiteConnect, set_access_token(self.access_token)
\* and profile(); an exception clears kite and kws and returns False
rc_client(c) ==
  /\ rc_pc[c] = "client"
  /\ IF access_token = ""
     THEN /\ rc_pc' = [rc_pc EXCEPT ![c] = "returned"]
          /\ mgr_lock' = FALSE
          /\ UNCHANGED <<kite, kws, kws_ws, tconn, sub_calls, kws_token>>
     ELSE \E valid \in BOOLEAN :
            IF valid
            THEN /\ kite' = access_token
                 /\ rc_pc' = [rc_pc EXCEPT ![c] = "ticker"]
                 /\ UNCHANGED <<kws, kws_ws, tconn, sub_calls, kws_token, mgr_lock>>
            ELSE /\ kite' = None
                 /\ kws' = 0
                 /\ kws_ws' = FALSE
                 /\ tconn' = "none"
                 /\ sub_calls' = NoSubCalls
                 /\ kws_token' = ""
                 /\ mgr_lock' = FALSE
                 /\ rc_pc' = [rc_pc EXCEPT ![c] = "returned"]
  /\ UNCHANGED <<access_token, ws_connected, pending_subscriptions, cb_pc, old_closing,
                 token_file, rc_tok>>
  /\ UNCHANGED <<ltp_cache, engine_vars, lock, monitor_alive, now>>
  /\ UNCHANGED <<handler_vars, update_vars>>

\* initialize(): KiteTicker(self.api_key, self.access_token), the callbacks,
\* connect(threaded=True), return True
rc_ticker(c) ==
  /\ rc_pc[c] = "ticker"
  /\ kws' = kws + 1
  /\ kws_token' = access_token
  /\ kws_ws' = FALSE
  /\ tconn' = "connecting"
  /\ sub_calls' = NoSubCalls
  /\ mgr_lock' = FALSE
  /\ rc_pc' = [rc_pc EXCEPT ![c] = "resub"]
  /\ UNCHANGED <<access_token, kite, ws_connected, pending_subscriptions, cb_pc,
                 old_closing, token_file, rc_tok>>
  /\ UNCHANGED <<ltp_cache, engine_vars, lock, monitor_alive, now>>
  /\ UNCHANGED <<handler_vars, update_vars>>

\* update_access_token, after a successful initialize(): the position's token
\* (when one is open) and NIFTY_TOKEN are subscribed or queued; return
rc_resub(c) ==
  /\ rc_pc[c] = "resub"
  /\ LET toks == {NIFTY_TOKEN}
                 \cup (IF open_position # <<>> THEN {open_position[1].token} ELSE {})
     IN  IF SubDirect
         THEN SendSubscribe(toks) /\ UNCHANGED pending_subscriptions
         ELSE /\ pending_subscriptions' = pending_subscriptions \cup toks
              /\ UNCHANGED sub_calls
  /\ rc_pc' = [rc_pc EXCEPT ![c] = "returned"]
  /\ UNCHANGED <<access_token, kite, kws, kws_ws, tconn, ws_connected, cb_pc,
                 old_closing, mgr_lock, token_file, kws_token, rc_tok>>
  /\ UNCHANGED <<ltp_cache, engine_vars, lock, monitor_alive, now>>
  /\ UNCHANGED <<handler_vars, update_vars>>

\* ------------------------------------------------------- the specification
\* the module after import: KiteManager() has run initialize() with the token
\* of the token file ("t0"), which the broker accepted
Init ==
  /\ ltp_cache = <<>>
  /\ open_position = <<>>
  /\ last_signal = None
  /\ lock = "free"
  /\ sheet = <<>>
  /\ last_exit = NoExit
  /\ monitor_alive = TRUE
  /\ now = 0
  /\ access_token = "t0"
  /\ kite = "t0"
  /\ kws = 1
  /\ tconn = "connecting"
  /\ kws_ws = FALSE
  /\ ws_connected = FALSE
  /\ pending_subscriptions = {}
  /\ sub_calls = NoSubCalls
  /\ cb_pc = "idle"
  /\ old_closing = FALSE
  /\ mgr_lock = FALSE
  /\ pc = [h \in Handlers |-> "idle"]
  /\ sig = [h \in Handlers |-> None]
  /\ opt = [h \in Handlers |-> 0]
  /\ attempts = [h \in Handlers |-> 0]
  /\ response = [signal |-> None, status |-> None]
  /\ nsignals = 0
  /\ upd_pc = "idle"
  /\ upd_tok = 0
  /\ rot_row = 0
  /\ nrot = 0
  /\ token_file = "t0"
  /\ kws_token = "t0"
  /\ rc_pc = [c \in Callers |-> "idle"]
  /\ rc_tok = [c \in Callers |-> ""]

\* the program in service, between token rotations: the feed, the streaming
\* callbacks, the monitor, the clock and the signal handlers
Next ==
  \/ \E tok \in Tokens : \E price \in TickPrices(tok) : on_ticks(tok, price)
  \/ on_connect
  \/ on_connect_clear
  \/ on_close
  \/ on_noreconnect
  \/ monitor_position
  \/ Advance
  \/ \E h \in Handlers : \E s \in Signals \cup {"SELL"} :
        \* the handlers are interchangeable: h2 serves a request only while h1 is busy
        (h = "h1" \/ pc["h1"] # "idle") /\ webhook_request(h, s)
  \/ \E h \in Handlers : webhook_enter(h)
  \/ \E h \in Handlers : webhook_sub(h)
  \/ \E h \in Handlers : webhook_poll(h)

Spec == Init /\ [][Next]_vars

\* the program in service with its threads scheduled: the monitor thread keeps
\* running its loop (time.sleep(CHECK_INTERVAL_SEC) returns) and a request
\* thread inside webhook() keeps running until it returns
SpecLive ==
  /\ Init
  /\ [][Next]_vars
  /\ WF_vars(monitor_position)
  /\ \A h \in Handlers :
        WF_vars(webhook_enter(h)) /\ WF_vars(webhook_sub(h)) /\ WF_vars(webhook_poll(h))

\* token rotation: update_access_token and initialize() run against the
\* streaming callbacks, the monitor and one signal handler, under a feed that
\* quotes the options at 1 or 2 and a network that does not drop the new
\* connection
NextRotation ==
  \/ \E tok \in Tokens : \E price \in RotationPrices(tok) : on_ticks(tok, price)
  \/ on_connect
  \/ on_connect_clear
  \/ old_on_close
  \/ monitor_position
  \/ \E s \in Signals : webhook_request("h1", s)
  \/ \E h \in Handlers : webhook_enter(h)
  \/ \E h \in Handlers : webhook_sub(h)
  \/ \E h \in Handlers : webhook_poll(h)
  \/ \E t \in NewTokens : update_access_token(t)
  \/ initialize_close
  \/ initialize_start
  \/ upd_resub_check
  \/ upd_resub_read
  \/ upd_pend_pos
  \/ upd_resub_nifty
  \/ upd_pend_nifty

SpecRotation == Init /\ [][NextRotation]_vars

\* two concurrent token updates against the streaming callbacks and the feed
NextTokens ==
  \/ \E tok \in Tokens : \E price \in RotationPrices(tok) : on_ticks(tok, price)
  \/ on_connect
  \/ on_connect_clear
  \/ old_on_close
  \/ \E c \in Callers : rc_set(c)
  \/ \E c \in Callers : rc_write(c)
  \/ \E c \in Callers : rc_close(c)
  \/ \E c \in Callers : rc_client(c)
  \/ \E c \in Callers : rc_ticker(c)
  \/ \E c \in Callers : rc_resub(c)

SpecTokens == Init /\ [][NextTokens]_vars

\* ------------------------------------------------------------------ claims

\* C1: a signal of the same kind as the open position is answered "Trade
\* running" and changes nothing: the position, last_signal and the ledger
\* (rows and log_exit calls) are as before
C1_SameSignalAlreadyRunning ==
  [][\A h \in Handlers :
       (webhook_enter(h) /\ open_position # <<>> /\ sig[h] = open_position[1].signal)
       => /\ response' = [signal |-> sig[h], status |-> "Trade running"]
          /\ open_position' = open_position
          /\ last_signal' = last_signal
          /\ sheet' = sheet
          /\ last_exit' = last_exit
          /\ pc'[h] = "idle"]_vars

\* a repeated signal has been answered while its position is open
C1_Witness ==
  /\ open_position # <<>>
  /\ response = [signal |-> open_position[1].signal, status |-> "Trade running"]
  /\ Len(sheet) = 1

\* C2: for every created position exactly one log_exit call is made with its
\* row, and it is made before the slot is cleared: a row never has two calls,
\* and the row of a position that is no longer open has one
C2_ExactlyOnceExit ==
  \A r \in 1..Len(sheet) :
    /\ sheet[r].calls <= 1
    /\ (open_position = <<>> \/ open_position[1].sheet_row # r) => sheet[r].calls = 1

\* C3: during the life of a position its stop never decreases; it changes
\* only in a monitor iteration, which sets it to the larger of the current
\* stop and price * (1 - TRAIL_SL_PCT)
C3_StopNeverDecreases ==
  [][(/\ open_position # <<>>
      /\ open_position' # <<>>
      /\ open_position'[1].sheet_row = open_position[1].sheet_row)
     => LET pos == open_position[1]
            sl2 == open_position'[1].sl
            cached == pos.token \in DOMAIN ltp_cache /\ ltp_cache[pos.token] # 0
            candidate == ltp_cache[pos.token] * (Scale - TRAIL_SL_PCT)
        IN  /\ sl2 >= pos.sl
            /\ (sl2 # pos.sl) => (monitor_position /\ cached /\ sl2 = candidate)
            /\ (monitor_position /\ cached)
               => sl2 = (IF candidate > pos.sl THEN candidate ELSE pos.sl)]_vars

\* a position whose stop the monitor has raised above its initial value, with
\* the cached price fallen back to a level whose candidate stop is lower
C3_Witness ==
  /\ open_position # <<>>
  /\ monitor_alive
  /\ open_position[1].sl > open_position[1].entry_price * (Scale - SL_PCT)
  /\ open_position[1].token \in DOMAIN ltp_cache
  /\ ltp_cache[open_position[1].token] > 0
  /\ ltp_cache[open_position[1].token] * (Scale - TRAIL_SL_PCT) < open_position[1].sl
  /\ ltp_cache[open_position[1].token] * Scale > open_position[1].sl

C5_FlipExitBeforeEntry ==
  [][/\ \A h \in Handlers :
          (/\ webhook_enter(h)
           /\ open_position # <<>>
           /\ sig[h] # open_position[1].signal
           /\ open_position[1].token \in DOMAIN ltp_cache
           /\ ltp_cache[open_position[1].token] # 0)
          => LET pos == open_position[1]
                 row == pos.sheet_row
             IN  /\ last_exit' = [row_idx |-> row, reason |-> "SIGNAL_FLIP",
                                  exit_price |-> ltp_cache[pos.token]]
                 /\ sheet'[row].calls = sheet[row].calls + 1
                 /\ Len(sheet') = Len(sheet)
                 /\ sheet'[row].reason = "SIGNAL_FLIP"
                 /\ open_position' = <<>>
     /\ (Len(sheet') > Len(sheet) \/ (open_position' # <<>> /\ open_position = <<>>))
        => /\ open_position = <<>>
           /\ \E h \in Handlers : lock = h /\ pc[h] = "poll"]_vars

\* C6: an opposite signal that finds a position open and no price cached for
\* its instrument is answered "Trade running" and leaves the position,
\* last_signal and the ledger unchanged
C6_FlipSkippedNoPrice ==
  [][\A h \in Handlers :
       (/\ webhook_enter(h)
        /\ open_position # <<>>
        /\ sig[h] # open_position[1].signal
        /\ \/ open_position[1].token \notin DOMAIN ltp_cache
           \/ ltp_cache[open_position[1].token] = 0)
       => /\ response' = [signal |-> sig[h], status |-> "Trade running"]
          /\ open_position' = open_position
          /\ last_signal' = last_signal
          /\ sheet' = sheet
          /\ last_exit' = last_exit
          /\ pc'[h] = "idle"]_vars

\* an opposite signal has been answered "Trade running" with the position's
\* instrument quoted at 0
C6_Witness ==
  /\ open_position # <<>>
  /\ response.signal \in Signals
  /\ response.signal # open_position[1].signal
  /\ response.status = "Trade running"
  /\ ltp_cache[open_position[1].token] = 0
  /\ last_exit = NoExit

\* C7: no position stays in the slot once an exit has fired for it, also when
\* the ledger write of that exit failed
C7_FiredExitClearsSlot ==
  open_position # <<>> => sheet[open_position[1].sheet_row].calls = 0

\* C8: the monitor loop never terminates, also after an iteration whose
\* ledger write failed
C8_MonitorNeverTerminates == monitor_alive

\* C9: when the connection drops, the ids subscribed on it are back in the
\* pending set, and the next connect subscribes exactly the index and those
\* ids, each once
C9_ReconnectReplays ==
  [][/\ on_close
        => \A t \in Tokens \ {NIFTY_TOKEN} :
             sub_calls[t] > 0 => t \in pending_subscriptions'
     /\ (on_connect /\ tconn = "closed")
        => \A t \in Tokens :
             sub_calls'[t] = IF t = NIFTY_TOKEN \/ sub_calls[t] > 0 THEN 1 ELSE 0]_vars

\* C10: after a successful update_access_token made while a position on X is
\* open, once the new ticker is connected and nothing is pending, X and the
\* index have each been subscribed exactly once on it
C10_RotationSubscribesOnce ==
  (/\ upd_pc = "done"
   /\ rot_row # 0
   /\ open_position # <<>>
   /\ open_position[1].sheet_row = rot_row
   /\ tconn = "open"
   /\ cb_pc = "idle"
   /\ pending_subscriptions = {})
  => /\ sub_calls[open_position[1].token] = 1
     /\ sub_calls[NIFTY_TOKEN] = 1

\* C11: when initialize() replaces the session, the old ticker is retired before
\* the new one is started: its close callback is delivered only while
\* initialize() is still between closing the old ticker and starting the new one
C11_OldTransportRetired ==
  [][old_on_close => upd_pc = "start"]_vars

\* C12: no subscription request is lost: an id put into the pending set is
\* subscribed by the connect callback before the callback clears the set
C12_NoSubscriptionLost ==
  [][on_connect_clear => \A t \in pending_subscriptions : sub_calls[t] > 0]_vars

\* C13: the position slot is under mutual exclusion: at most one signal
\* handler is inside the locked section and it holds the lock, and every step
\* that changes the slot, last_signal or the ledger is a monitor iteration
\* taken while no handler is inside, or a step of the one handler inside
C13_SlotMutualExclusion ==
  [][/\ \A h \in Handlers : pc[h] \in {"sub", "poll"} => lock = h
     /\ engine_vars' # engine_vars
        => \/ /\ monitor_position
              /\ \A h \in Handlers : pc[h] \notin {"sub", "poll"}
           \/ \E h \in Handlers :
                /\ webhook_enter(h) \/ webhook_poll(h)
                /\ \A g \in Handlers \ {h} : pc[g] \notin {"sub", "poll"}]_vars

\* a position is entered by one handler while the second one, whose request
\* arrived in the meantime, waits for the lock
C13_Witness ==
  /\ open_position # <<>>
  /\ response = [signal |-> open_position[1].signal, status |-> "ENTRY OK"]
  /\ pc["h2"] = "wait"

\* C14: an entry aborted with "Option LTP not ready" or "Margin not available"
\* leaves no partial state: the slot is empty before and after, last_signal is
\* unchanged and no ledger row has been written
C14_AbortedEntryNoPartialState ==
  [][\A h \in Handlers :
       (/\ webhook_poll(h)
        /\ pc'[h] = "idle"
        /\ response'.status \in {"Option LTP not ready", "Margin not available"})
       => /\ open_position = <<>>
          /\ open_position' = <<>>
          /\ last_signal' = last_signal
          /\ sheet' = sheet
          /\ last_exit' = last_exit]_vars

\* the entry that followed a flip exit was aborted: the slot is empty, the one
\* ledger row is that of the exited position and last_signal is still its signal
C14_Witness ==
  /\ response.status \in {"Option LTP not ready", "Margin not available"}
  /\ response.signal \in Signals
  /\ open_position = <<>>
  /\ Len(sheet) = 1
  /\ sheet[1].reason = "SIGNAL_FLIP"
  /\ last_signal \in Signals
  /\ last_signal # response.signal

\* C15: whenever initialize() returns failure, also on a re-initialization,
\* the manager is left with no client and no ticker, so is_ready() is false
C15_FailedInitializeNotReady ==
  [][(initialize_start /\ upd_pc' = "failed") => (kite' = None /\ kws' = 0)]_vars

\* C16: no missed exits: once the deadline of the open position has passed
\* and the monitor thread is running, an exit is eventually fired for that
\* position (or the slot has been cleared), whatever ticks its instrument has
\* received since the entry
C16_NoMissedExits ==
  (/\ open_position # <<>>
   /\ monitor_alive
   /\ now >= open_position[1].exit_time)
  ~> (\/ open_position = <<>>
      \/ sheet[open_position[1].sheet_row].calls > 0)

\* C17 (as the code behaves): the lock is held through the subscribe and the
\* entry-price poll: while a handler polls, it is the lock holder and neither
\* the monitor iteration nor the locked section of another request can start
C17_LockHeldDuringPoll ==
  \A h \in Handlers :
    pc[h] \in {"sub", "poll"}
    => /\ lock = h
       /\ ~ENABLED monitor_position
       /\ \A g \in Handlers : ~ENABLED webhook_enter(g)

\* a handler has slept in the poll at least once while the second request
\* waits for the lock
C17_Witness ==
  /\ pc["h1"] = "poll"
  /\ attempts["h1"] >= 1
  /\ lock = "h1"
  /\ pc["h2"] = "wait"

\* C17 (as stated): during the entry-price poll the lock is not held, so the
\* monitor and other signal handlers can take it while the poll sleeps
C17_LockReleasedDuringPoll ==
  \A h \in Handlers : pc[h] = "poll" => (lock # h /\ ENABLED monitor_position)

\* C19: update_access_token checks that a position is open and reads its
\* instrument atomically with respect to exits: when it reads
\* open_position["token"] the position it has seen is still in the slot
C19_PositionReadAtomic ==
  [][upd_resub_read => open_position # <<>>]_vars

\* C20: whenever a position is open, last_signal is the signal that position
\* was entered on, so the flip test of the code (signal # last_signal)
\* agrees with the test against the open position's own signal
C20_LastSignalIsPositionSignal ==
  open_position # <<>>
  => /\ last_signal = open_position[1].signal
     /\ \A s \in Signals : IsFlip(s) <=> (s # open_position[1].signal)

\* the second position, entered by a flip, is open after an exit and an entry
C20_Witness ==
  /\ Len(sheet) = 2
  /\ sheet[1].reason = "SIGNAL_FLIP"
  /\ open_position # <<>>
  /\ open_position[1].sheet_row = 2
  /\ open_position[1].signal = last_signal

\* C18: concurrent update_access_token calls do not race: outside
\* initialize() the client and the ticker are built from one token, and once
\* both calls have returned the token file, the manager's token, the client
\* and the ticker all carry the same token
C18_TokenUpdatesDoNotRace ==
  (~mgr_lock /\ kite # None /\ kws # 0)
  => /\ kite = kws_token
     /\ (\A c \in Callers : rc_pc[c] = "returned")
        => (token_file = access_token /\ access_token = kite)

\* C21: whenever a position is open its stop is below its target: a price
\* that would ratchet the stop to the target or above closes the position in
\* the same monitor iteration
C21_StopBelowTarget ==
  open_position # <<>> => open_position[1].sl < open_position[1].target

====
